---- MODULE Spec2Model ----
(***************************************************************************)
(* pomidor: a terminal countdown timer (src/src/main.rs).                  *)
(*                                                                         *)
(* A Rust String is modelled as a sequence of characters, each character a *)
(* TLA+ string: the character itself, or its code point when it is not     *)
(* ASCII.  A Duration is an integer number of milliseconds.  An Option is  *)
(* a sequence of length 0 (None) or 1 (Some).                              *)
(***************************************************************************)
EXTENDS Integers, Sequences, FiniteSets, TLC

VARIABLES
    time_str,           \* App.time_str: the displayed remaining time
    edit_mode,          \* App.edit_mode
    reset,              \* App.reset: the loop must re-arm the deadline
    time,               \* App.time: the configured duration (ms)
    input_str,          \* App.input_str: the edit buffer
    cursor_position,    \* App.cursor_position
    last_tick_age,      \* run_app: last_tick.elapsed() (ms)
    start_age,          \* run_app: start.elapsed() (ms)
    deadline,           \* run_app: the active target duration (ms)
    timeout,            \* run_app: the wait budget of the current iteration (ms)
    pc,                 \* position in run_app's loop, in main's teardown, or
                        \* in a call of a pure function
    key,                \* the key event handled by the latest step, "none" if none
    call,               \* the pure function call being made: [fn, arg]
    ret,                \* the value that call returned
    res,                \* main: the result of run_app, "none" while it runs,
                        \* then "Ok" or "Err(the call that failed)"
    attempted,          \* main: the teardown calls made so far
    reported            \* main: the error main has reported, "none" if none

appvars == <<time_str, edit_mode, reset, time, input_str, cursor_position>>
loopvars == <<last_tick_age, start_age, deadline, timeout>>
codecvars == <<call, ret>>
mainvars == <<res, attempted, reported>>
vars == <<time_str, edit_mode, reset, time, input_str, cursor_position,
          last_tick_age, start_age, deadline, timeout, pc, key, call, ret,
          res, attempted, reported>>

----------------------------------------------------------------------------
(* Program constants *)

MARGIN_LINES == 2
INPUT_HEIGHT == 3
SECS_IN_HOUR == 3600
SECS_IN_MIN == 60
tick_rate == 250
MillisPerSec == 1000

----------------------------------------------------------------------------
(* Characters and strings *)

Digits == <<"0", "1", "2", "3", "4", "5", "6", "7", "8", "9">>

DigitChars == {Digits[i] : i \in 1..10}

\* The characters that take more than one byte in UTF-8 (here two bytes).
WideChars == {"U+00E9"}

\* char::len_utf8
len_utf8(c) == IF c \in WideChars THEN 2 ELSE 1

RECURSIVE ByteLen(_)
\* str::len: the length of the string in bytes
ByteLen(s) == IF s = <<>> THEN 0 ELSE len_utf8(Head(s)) + ByteLen(Tail(s))

\* str::chars().count()
CharCount(s) == Len(s)

\* The value of an ASCII decimal digit (str::parse::<u64> on one digit).
DigitVal(c) == CHOOSE v \in 0..9 : Digits[v + 1] = c

\* str::parse::<u64> on a two-digit capture
TwoDigitVal(s, i) == 10 * DigitVal(s[i]) + DigitVal(s[i + 1])

None == <<>>
Some(v) == <<v>>

\* Duration::new(secs, 0), in milliseconds
from_secs(secs) == secs * MillisPerSec

\* Duration::as_secs
as_secs(d) == d \div MillisPerSec

----------------------------------------------------------------------------
(* DurationCodec: parse_duration and remain_to_fmt *)

\* The character at 1-based index i, or "" past either end of the string.
At(s, i) == IF i \in 1..Len(s) THEN s[i] ELSE ""

InRange(c, lo, hi) == c \in DigitChars /\ DigitVal(c) \in lo..hi

\* ([01][0-9]|2[0-3]) at index i
ReHours(s, i) ==
    \/ InRange(At(s, i), 0, 1) /\ InRange(At(s, i + 1), 0, 9)
    \/ At(s, i) = "2" /\ InRange(At(s, i + 1), 0, 3)

\* ([0-5][0-9]) at index i
ReSixty(s, i) == InRange(At(s, i), 0, 5) /\ InRange(At(s, i + 1), 0, 9)

\* ([0-5][0-9]):([0-5][0-9]) at index i
ReMinSec(s, i) == ReSixty(s, i) /\ At(s, i + 2) = ":" /\ ReSixty(s, i + 3)

\* The captures of the regex when the match starts at index i, None if none
\* starts there.  The optional group (:?(hh):) is greedy, and so is its
\* optional colon: the alternatives are tried in this order.
MatchAt(s, i) ==
    IF At(s, i) = ":" /\ ReHours(s, i + 1) /\ At(s, i + 3) = ":" /\ ReMinSec(s, i + 4)
    THEN Some([h |-> TwoDigitVal(s, i + 1), m |-> TwoDigitVal(s, i + 4),
               s |-> TwoDigitVal(s, i + 7)])
    ELSE IF ReHours(s, i) /\ At(s, i + 2) = ":" /\ ReMinSec(s, i + 3)
    THEN Some([h |-> TwoDigitVal(s, i), m |-> TwoDigitVal(s, i + 3),
               s |-> TwoDigitVal(s, i + 6)])
    ELSE IF ReMinSec(s, i)
    THEN Some([h |-> 0, m |-> TwoDigitVal(s, i), s |-> TwoDigitVal(s, i + 3)])
    ELSE None

\* Regex::captures: the regex is not anchored, so the leftmost match anywhere
\* in the string is taken.
captures(s) ==
    LET starts == {i \in 1..Len(s) : MatchAt(s, i) # None}
    IN  IF starts = {} THEN None
        ELSE MatchAt(s, CHOOSE i \in starts : \A j \in starts : i <= j)

\* A plausible slip: hours weighted as minutes.
parse_duration_hours_as_minutes(duration) ==
    IF ByteLen(duration) # 5 /\ ByteLen(duration) # 8 THEN None
    ELSE LET caps == captures(duration)
         IN  IF caps = None THEN None
             ELSE LET c == caps[1]
                  IN  Some(from_secs(60 * c.h + 60 * c.m + c.s))

\* App::parse_duration
parse_duration(duration) ==
    IF ByteLen(duration) # 5 /\ ByteLen(duration) # 8 THEN None
    ELSE LET caps == captures(duration)
         IN  IF caps = None THEN None
             ELSE LET c == caps[1]
                  IN  Some(from_secs(3600 * c.h + 60 * c.m + c.s))

RECURSIVE Decimal(_)
\* The decimal digits of n (Display for u64)
Decimal(n) ==
    IF n < 10 THEN <<Digits[n + 1]>>
    ELSE Append(Decimal(n \div 10), Digits[(n % 10) + 1])

\* format!("{:02}", n): zero-padded to a width of at least two
Pad02(n) == LET d == Decimal(n) IN IF Len(d) < 2 THEN <<"0">> \o d ELSE d

\* A plausible slip: the minutes are not reduced modulo the hour.
remain_to_fmt_minutes_not_reduced(remain) ==
    LET hours == remain \div SECS_IN_HOUR
        minutes == remain \div SECS_IN_MIN
        seconds == remain % SECS_IN_MIN
    IN  IF hours = 0
        THEN Pad02(minutes) \o <<":">> \o Pad02(seconds)
        ELSE Pad02(hours) \o <<":">> \o Pad02(minutes) \o <<":">> \o Pad02(seconds)

\* remain_to_fmt
remain_to_fmt(remain) ==
    LET hours == remain \div SECS_IN_HOUR
        minutes == (remain % SECS_IN_HOUR) \div SECS_IN_MIN
        seconds == remain % SECS_IN_MIN
    IN  IF hours = 0
        THEN Pad02(minutes) \o <<":">> \o Pad02(seconds)
        ELSE Pad02(hours) \o <<":">> \o Pad02(minutes) \o <<":">> \o Pad02(seconds)

----------------------------------------------------------------------------
(* App: the methods the key dispatch of run_app calls.  Each is an action  *)
(* on the fields of App.                                                   *)

\* usize::saturating_sub(1)
saturating_sub1(n) == IF n = 0 THEN 0 ELSE n - 1

\* App::clamp_cursor, on the buffer s: clamps to the length of s in bytes
clamp_cursor(s, new_cursor_pos) ==
    IF new_cursor_pos > ByteLen(s) THEN ByteLen(s) ELSE new_cursor_pos

\* Iterator::take(n) and Iterator::skip(n) over str::chars
take(s, n) == SubSeq(s, 1, IF n < Len(s) THEN n ELSE Len(s))
skip(s, n) == SubSeq(s, n + 1, Len(s))

\* App::on_tick
on_tick(remain) ==
    /\ time_str' = remain
    /\ UNCHANGED <<edit_mode, reset, time, input_str, cursor_position>>

\* App::move_cursor_left
move_cursor_left ==
    /\ cursor_position' = clamp_cursor(input_str, saturating_sub1(cursor_position))
    /\ UNCHANGED <<time_str, edit_mode, reset, time, input_str>>

\* App::move_cursor_right
move_cursor_right ==
    /\ cursor_position' = clamp_cursor(input_str, cursor_position + 1)
    /\ UNCHANGED <<time_str, edit_mode, reset, time, input_str>>

\* App::enter_char: pushes at the end of the buffer, then moves the cursor
enter_char(new_char) ==
    /\ input_str' = Append(input_str, new_char)
    /\ cursor_position' = clamp_cursor(input_str', cursor_position + 1)
    /\ UNCHANGED <<time_str, edit_mode, reset, time>>

\* App::delete_char
delete_char ==
    IF cursor_position # 0
    THEN /\ input_str' = take(input_str, cursor_position - 1)
                             \o skip(input_str, cursor_position)
         /\ cursor_position' = clamp_cursor(input_str',
                                            saturating_sub1(cursor_position))
         /\ UNCHANGED <<time_str, edit_mode, reset, time>>
    ELSE UNCHANGED appvars

\* A plausible slip: the buffer is cleared whatever the parse gives.
submit_time_always_clears ==
    LET duration == parse_duration(input_str)
    IN  /\ time' = IF duration # None THEN duration[1] ELSE time
        /\ input_str' = <<>>
        /\ cursor_position' = 0
        /\ reset' = IF duration # None THEN TRUE ELSE reset
        /\ edit_mode' = IF duration # None THEN FALSE ELSE edit_mode
        /\ UNCHANGED time_str

\* A plausible slip: the re-arm request is forgotten on submit.
submit_time_no_rearm ==
    LET duration == parse_duration(input_str)
    IN  IF duration # None
        THEN /\ time' = duration[1]
             /\ input_str' = <<>>
             /\ cursor_position' = 0
             /\ edit_mode' = FALSE
             /\ UNCHANGED <<time_str, reset>>
        ELSE UNCHANGED appvars

\* App::submit_time
submit_time ==
    LET duration == parse_duration(input_str)
    IN  IF duration # None
        THEN /\ time' = duration[1]
             /\ input_str' = <<>>
             /\ cursor_position' = 0
             /\ reset' = TRUE
             /\ edit_mode' = FALSE
             /\ UNCHANGED time_str
        ELSE UNCHANGED appvars

\* App::enter_edit
enter_edit ==
    /\ edit_mode' = TRUE
    /\ UNCHANGED <<time_str, reset, time, input_str, cursor_position>>

\* A plausible slip: leaving edit mode keeps the buffer and the cursor.
exit_edit_keeps_buffer ==
    /\ edit_mode' = FALSE
    /\ UNCHANGED <<time_str, reset, time, input_str, cursor_position>>

\* App::exit_edit
exit_edit ==
    /\ edit_mode' = FALSE
    /\ input_str' = <<>>
    /\ cursor_position' = 0
    /\ UNCHANGED <<time_str, reset, time>>

\* App::reset
App_reset ==
    /\ reset' = TRUE
    /\ UNCHANGED <<time_str, edit_mode, time, input_str, cursor_position>>

\* A plausible slip: stop leaves the displayed string alone.
stop_keeps_display ==
    /\ time' = 0
    /\ reset' = TRUE
    /\ UNCHANGED <<time_str, edit_mode, input_str, cursor_position>>

\* A plausible slip: stop does not ask for a re-arm.
stop_no_rearm ==
    /\ time' = 0
    /\ time_str' = <<"0", "0", ":", "0", "0">>
    /\ UNCHANGED <<reset, edit_mode, input_str, cursor_position>>

\* App::stop
stop ==
    /\ time' = 0
    /\ time_str' = <<"0", "0", ":", "0", "0">>
    /\ reset' = TRUE
    /\ UNCHANGED <<edit_mode, input_str, cursor_position>>

----------------------------------------------------------------------------
(* The codec: one call of parse_duration or remain_to_fmt on an input      *)
(* drawn from a bounded set.                                               *)

MaxLen == 8
MaxRemain == 86399

Alphabet == {"0", ":", "U+00E9"}

\* Every string over Alphabet of at most MaxLen characters.
ShortStrings == UNION {[1..n -> Alphabet] : n \in 0..MaxLen}

TwoDigits(n) == <<Digits[(n \div 10) + 1], Digits[(n % 10) + 1]>>

\* Every well-formed hh:mm:ss and mm:ss string.
ValidLong ==
    {TwoDigits(h) \o <<":">> \o TwoDigits(m) \o <<":">> \o TwoDigits(s) :
        h \in 0..23, m \in 0..59, s \in 0..59}

ValidShort == {TwoDigits(m) \o <<":">> \o TwoDigits(s) : m \in 0..59, s \in 0..59}

\* Two-character fields in and out of range, and separators right and wrong.
FieldSamples == {<<"0", "0">>, <<"2", "3">>, <<"2", "4">>, <<"5", "9">>,
                 <<"6", "0">>, <<"9", "9">>, <<"0", "a">>}

SepSamples == {":", "-"}

FieldStrings ==
    {f1 \o <<s1>> \o f2 \o <<s2>> \o f3 :
        f1 \in FieldSamples, f2 \in FieldSamples, f3 \in FieldSamples,
        s1 \in SepSamples, s2 \in SepSamples}
    \cup {f1 \o <<s1>> \o f2 : f1 \in FieldSamples, f2 \in FieldSamples,
                               s1 \in SepSamples}

\* App::new
AppNew ==
    /\ input_str = <<>>
    /\ edit_mode = FALSE
    /\ reset = FALSE
    /\ time = 0
    /\ time_str = <<"0", "0", ":", "0", "0">>
    /\ cursor_position = 0

\* The locals of run_app before its loop.
LoopNew ==
    /\ last_tick_age = 0
    /\ start_age = 0
    /\ deadline = 0
    /\ timeout = 0

\* main, lines 369-377: the terminal is set up and run_app is entered.
MainNew ==
    /\ res = "none"
    /\ attempted = {}
    /\ reported = "none"

InitCodec ==
    /\ AppNew
    /\ LoopNew
    /\ MainNew
    /\ key = "none"
    /\ pc = "call"
    /\ \/ \E s \in ShortStrings : call = [fn |-> "parse_duration", arg |-> s]
       \/ \E s \in ValidLong : call = [fn |-> "parse_duration", arg |-> s]
       \/ \E s \in ValidShort : call = [fn |-> "parse_duration", arg |-> s]
       \/ \E s \in FieldStrings : call = [fn |-> "parse_duration", arg |-> s]
       \/ \E n \in 0..MaxRemain : call = [fn |-> "remain_to_fmt", arg |-> n]
    /\ ret = None

CallParse ==
    /\ pc = "call"
    /\ call.fn = "parse_duration"
    /\ ret' = parse_duration(call.arg)
    /\ pc' = "return"
    /\ UNCHANGED <<appvars, loopvars, key, call, mainvars>>

CallFormat ==
    /\ pc = "call"
    /\ call.fn = "remain_to_fmt"
    /\ ret' = Some(remain_to_fmt(call.arg))
    /\ pc' = "return"
    /\ UNCHANGED <<appvars, loopvars, key, call, mainvars>>

NextCodec == CallParse \/ CallFormat

SpecCodec == InitCodec /\ [][NextCodec]_vars

----------------------------------------------------------------------------
(* Claims about the codec (checked under SpecCodec) *)

Str(a, b, c, d, e) == <<a, b, c, d, e>>

\* s[i], s[i+1] are two decimal digits whose value is at most max.
IsField(s, i, max) ==
    /\ s[i] \in DigitChars
    /\ s[i + 1] \in DigitChars
    /\ 10 * DigitVal(s[i]) + DigitVal(s[i + 1]) <= max

\* s is hh:mm:ss with hours 00-23, minutes 00-59, seconds 00-59.
IsHMS(s) ==
    /\ Len(s) = 8
    /\ IsField(s, 1, 23) /\ s[3] = ":" /\ IsField(s, 4, 59) /\ s[6] = ":"
    /\ IsField(s, 7, 59)

\* s is mm:ss with both fields 00-59.
IsMS(s) == Len(s) = 5 /\ IsField(s, 1, 59) /\ s[3] = ":" /\ IsField(s, 4, 59)

Parsed == pc = "return" /\ call.fn = "parse_duration"

Formatted == pc = "return" /\ call.fn = "remain_to_fmt"

\* C5: every 8-character string that is not a well-formed hh:mm:ss, and every
\* 5-character string that is not a well-formed mm:ss, parses to no value.
C5_MalformedRejected ==
    (Parsed /\ \/ Len(call.arg) = 8 /\ ~IsHMS(call.arg)
               \/ Len(call.arg) = 5 /\ ~IsMS(call.arg))
        => ret = None

\* C6: a well-formed hh:mm:ss parses to exactly 3600h + 60m + s seconds, and a
\* well-formed mm:ss to exactly 60m + s seconds.
C6_ValidParsed ==
    /\ (Parsed /\ IsHMS(call.arg)) =>
           ret = Some(MillisPerSec * (3600 * TwoDigitVal(call.arg, 1)
                                      + 60 * TwoDigitVal(call.arg, 4)
                                      + TwoDigitVal(call.arg, 7)))
    /\ (Parsed /\ IsMS(call.arg)) =>
           ret = Some(MillisPerSec * (60 * TwoDigitVal(call.arg, 1)
                                      + TwoDigitVal(call.arg, 4)))

\* "23:59:59" has been parsed to 86399 seconds, and "59:59" to 3599.
C6_Witness ==
    /\ Parsed
    /\ call.arg = <<"2", "3", ":", "5", "9", ":", "5", "9">>
    /\ ret = Some(86399 * MillisPerSec)

\* C7: every string whose length in characters is neither 5 nor 8 parses to
\* no value.
C7_OtherLengthsRejected ==
    (Parsed /\ CharCount(call.arg) # 5 /\ CharCount(call.arg) # 8) => ret = None

\* The mm:ss or hh:mm:ss rendering the claim gives for a number of seconds.
C8_Expected(total) ==
    IF total < 3600
    THEN TwoDigits((total % 3600) \div 60) \o <<":">> \o TwoDigits(total % 60)
    ELSE TwoDigits(total \div 3600) \o <<":">> \o TwoDigits((total % 3600) \div 60)
             \o <<":">> \o TwoDigits(total % 60)

\* C8: format renders two-digit zero-padded mm:ss below one hour and hh:mm:ss
\* from one hour on; the six examples of the specification are among them.
C8_FormatRendering ==
    Formatted =>
        /\ ret = Some(C8_Expected(call.arg))
        /\ call.arg = 0 => ret = Some(<<"0", "0", ":", "0", "0">>)
        /\ call.arg = 59 => ret = Some(<<"0", "0", ":", "5", "9">>)
        /\ call.arg = 60 => ret = Some(<<"0", "1", ":", "0", "0">>)
        /\ call.arg = 3599 => ret = Some(<<"5", "9", ":", "5", "9">>)
        /\ call.arg = 3600 => ret = Some(<<"0", "1", ":", "0", "0", ":", "0", "0">>)
        /\ call.arg = 86399 => ret = Some(<<"2", "3", ":", "5", "9", ":", "5", "9">>)

\* 86399 seconds have been rendered as "23:59:59".
C8_Witness ==
    /\ Formatted
    /\ call.arg = 86399
    /\ ret = Some(<<"2", "3", ":", "5", "9", ":", "5", "9">>)

----------------------------------------------------------------------------
(* The edit state machine: App under the key events run_app routes to it,  *)
(* with every character of EditChars typed freely.  The loop's clock and   *)
(* deadline stay as they start.                                            *)

MaxInputBytes == 5

EditChars == {"0", "5", ":", "U+00E9"}

InitEdit ==
    /\ AppNew
    /\ LoopNew
    /\ MainNew
    /\ key = "none"
    /\ pc = "poll"
    /\ call = [fn |-> "none", arg |-> 0]
    /\ ret = None

\* What a key dispatch leaves alone.
Routed(k) == key' = k /\ UNCHANGED <<loopvars, pc, codecvars, mainvars>>

EditEnter == edit_mode /\ submit_time /\ Routed("Enter")

EditChar ==
    /\ edit_mode
    /\ \E c \in EditChars :
          /\ ByteLen(input_str) + len_utf8(c) <= MaxInputBytes
          /\ enter_char(c)
          /\ Routed(c)

EditBackspace == edit_mode /\ delete_char /\ Routed("Backspace")

EditLeft == edit_mode /\ move_cursor_left /\ Routed("Left")

EditRight == edit_mode /\ move_cursor_right /\ Routed("Right")

EditEsc == edit_mode /\ exit_edit /\ Routed("Esc")

NormalEdit == ~edit_mode /\ enter_edit /\ Routed("e")

NormalReset == ~edit_mode /\ App_reset /\ Routed("r")

NormalStop == ~edit_mode /\ stop /\ Routed("s")

NextEdit ==
    \/ EditEnter
    \/ EditChar
    \/ EditBackspace
    \/ EditLeft
    \/ EditRight
    \/ EditEsc
    \/ NormalEdit
    \/ NormalReset
    \/ NormalStop

SpecEdit == InitEdit /\ [][NextEdit]_vars

----------------------------------------------------------------------------
(* run_app: the render loop.  One iteration is three steps: the top of the *)
(* loop (draw, wait budget, re-arm), the poll with its key dispatch, and   *)
(* the tick check.  The clock is kept as the two elapsed times the loop    *)
(* reads, last_tick.elapsed() and start.elapsed(); it advances in whole    *)
(* tick intervals, during the draw, during the poll, and between the       *)
(* re-arm on expiry and the read of the elapsed time that follows it.      *)

MaxLag == 1
MaxAge == 6

\* The time a draw, or a poll past its budget, may take.
Lags == {n * tick_rate : n \in 0..MaxLag}

\* The clock may advance by dt: elapsed times stay within MaxAge intervals.
MayPass(dt) ==
    /\ last_tick_age + dt <= MaxAge * tick_rate
    /\ start_age + dt <= MaxAge * tick_rate

\* The duration the user types in the loop; while typing it the user may also
\* hit one of the command letters.
LoopTyped == <<"0", "0", ":", "0", "1">>
CmdChars == {"e", "r", "s", "q"}

IsPrefix(s, t) == Len(s) <= Len(t) /\ s = SubSeq(t, 1, Len(s))

Init ==
    /\ AppNew
    /\ LoopNew
    /\ MainNew
    /\ key = "none"
    /\ pc = "draw"
    /\ call = [fn |-> "none", arg |-> 0]
    /\ ret = None

\* A plausible slip: the re-arm takes the new target but keeps the old start
\* instant.
LoopTop_keeps_start ==
    /\ pc = "draw"
    /\ \E dt \in Lags :
          /\ MayPass(dt)
          /\ last_tick_age' = last_tick_age + dt
          /\ timeout' = IF tick_rate >= last_tick_age + dt
                        THEN tick_rate - (last_tick_age + dt) ELSE 0
          /\ start_age' = start_age + dt
          /\ IF reset
             THEN /\ reset' = FALSE
                  /\ deadline' = time
             ELSE UNCHANGED <<reset, deadline>>
    /\ key' = "none"
    /\ pc' = "poll"
    /\ UNCHANGED <<time_str, edit_mode, time, input_str, cursor_position,
                   codecvars, mainvars>>

\* Lines 288-298: draw the frame, compute the wait budget, re-arm if asked.
LoopTop ==
    /\ pc = "draw"
    /\ \E dt \in Lags :
          /\ MayPass(dt)
          /\ last_tick_age' = last_tick_age + dt
          /\ timeout' = IF tick_rate >= last_tick_age + dt
                        THEN tick_rate - (last_tick_age + dt) ELSE 0
          /\ IF reset
             THEN /\ reset' = FALSE
                  /\ deadline' = time
                  /\ start_age' = 0
             ELSE /\ start_age' = start_age + dt
                  /\ UNCHANGED <<reset, deadline>>
    /\ key' = "none"
    /\ pc' = "poll"
    /\ UNCHANGED <<time_str, edit_mode, time, input_str, cursor_position,
                   codecvars, mainvars>>

\* Lines 300-302, 328: an event arrives within the wait budget and is read as
\* the key k.
Polled(k) ==
    /\ pc = "poll"
    /\ \E dt \in {0, timeout} :
          /\ MayPass(dt)
          /\ last_tick_age' = last_tick_age + dt
          /\ start_age' = start_age + dt
    /\ key' = k
    /\ UNCHANGED <<deadline, timeout, codecvars>>

\* The dispatch is over and run_app goes on to its tick check.
Dispatched == pc' = "tick" /\ UNCHANGED mainvars

PollEnter == edit_mode /\ Polled("Enter") /\ submit_time /\ Dispatched

PollChar ==
    /\ edit_mode
    /\ \E c \in DigitChars \cup {":"} \cup CmdChars :
          /\ \/ IsPrefix(Append(input_str, c), LoopTyped)
             \/ c \in CmdChars /\ IsPrefix(input_str, LoopTyped)
          /\ Polled(c)
          /\ enter_char(c)
    /\ Dispatched

PollBackspace == edit_mode /\ Polled("Backspace") /\ delete_char /\ Dispatched

PollLeft == edit_mode /\ Polled("Left") /\ move_cursor_left /\ Dispatched

PollRight == edit_mode /\ Polled("Right") /\ move_cursor_right /\ Dispatched

PollEsc == edit_mode /\ Polled("Esc") /\ exit_edit /\ Dispatched

\* Any other event, in either mode: nothing is called.
PollOther == Polled("Other") /\ UNCHANGED appvars /\ Dispatched

PollCmdEdit == ~edit_mode /\ Polled("e") /\ enter_edit /\ Dispatched

PollCmdReset == ~edit_mode /\ Polled("r") /\ App_reset /\ Dispatched

PollCmdStop == ~edit_mode /\ Polled("s") /\ stop /\ Dispatched

\* Line 340: return Ok(())
\* A plausible slip: 'q' is matched before the mode is looked at.
PollCmdQuit_any_mode ==
    /\ Polled("q")
    /\ pc' = "done"
    /\ res' = "Ok"
    /\ UNCHANGED <<appvars, attempted, reported>>

PollCmdQuit ==
    /\ ~edit_mode
    /\ Polled("q")
    /\ pc' = "done"
    /\ res' = "Ok"
    /\ UNCHANGED <<appvars, attempted, reported>>

\* Line 300: no event within the wait budget.
PollTimeout ==
    /\ pc = "poll"
    /\ \E lag \in Lags :
          /\ MayPass(timeout + lag)
          /\ last_tick_age' = last_tick_age + timeout + lag
          /\ start_age' = start_age + timeout + lag
    /\ key' = "none"
    /\ pc' = "tick"
    /\ UNCHANGED <<appvars, deadline, timeout, codecvars, mainvars>>

\* Line 347: the tick interval has not elapsed.
TickNotDue ==
    /\ pc = "tick"
    /\ last_tick_age < tick_rate
    /\ pc' = "draw"
    /\ UNCHANGED <<appvars, loopvars, key, codecvars, mainvars>>

\* A plausible slip: the start instant is reset as soon as the elapsed time
\* meets the target.
TickDue_resets_at_target ==
    /\ pc = "tick"
    /\ last_tick_age >= tick_rate
    /\ IF as_secs(deadline) = 0
       THEN /\ last_tick_age' = 0
            /\ pc' = "draw"
            /\ UNCHANGED <<appvars, start_age>>
       ELSE IF deadline <= start_age
       THEN \E e \in Lags :
               /\ last_tick_age' = e
               /\ start_age' = e
               /\ IF e > deadline
                  THEN pc' = "panic" /\ UNCHANGED appvars
                  ELSE pc' = "draw" /\ on_tick(remain_to_fmt(as_secs(deadline - e)))
       ELSE /\ last_tick_age' = 0
            /\ pc' = "draw"
            /\ on_tick(remain_to_fmt(as_secs(deadline - start_age)))
            /\ UNCHANGED start_age
    /\ UNCHANGED <<deadline, timeout, key, codecvars, mainvars>>

\* A plausible slip: the expired countdown is not restarted before the
\* remaining time is computed.
TickDue_no_restart ==
    /\ pc = "tick"
    /\ last_tick_age >= tick_rate
    /\ last_tick_age' = 0
    /\ IF as_secs(deadline) = 0
       THEN pc' = "draw" /\ UNCHANGED appvars
       ELSE IF deadline < start_age
       THEN pc' = "panic" /\ UNCHANGED appvars
       ELSE pc' = "draw" /\ on_tick(remain_to_fmt(as_secs(deadline - start_age)))
    /\ UNCHANGED <<start_age, deadline, timeout, key, codecvars, mainvars>>

\* Lines 347-364: the tick interval has elapsed.  On expiry the start instant
\* is reset and the elapsed time read again, e later.
TickDue ==
    /\ pc = "tick"
    /\ last_tick_age >= tick_rate
    /\ IF as_secs(deadline) = 0
       THEN /\ last_tick_age' = 0
            /\ pc' = "draw"
            /\ UNCHANGED <<appvars, start_age>>
       ELSE IF deadline < start_age
       THEN \E e \in Lags :
               /\ last_tick_age' = e
               /\ start_age' = e
               /\ IF e > deadline
                  THEN pc' = "panic" /\ UNCHANGED appvars
                  ELSE pc' = "draw" /\ on_tick(remain_to_fmt(as_secs(deadline - e)))
       ELSE /\ last_tick_age' = 0
            /\ pc' = "draw"
            /\ on_tick(remain_to_fmt(as_secs(deadline - start_age)))
            /\ UNCHANGED start_age
    /\ UNCHANGED <<deadline, timeout, key, codecvars, mainvars>>

Next ==
    \/ LoopTop
    \/ PollEnter
    \/ PollChar
    \/ PollBackspace
    \/ PollLeft
    \/ PollRight
    \/ PollEsc
    \/ PollOther
    \/ PollCmdEdit
    \/ PollCmdReset
    \/ PollCmdStop
    \/ PollCmdQuit
    \/ PollTimeout
    \/ TickNotDue
    \/ TickDue

Spec == Init /\ [][Next]_vars

----------------------------------------------------------------------------
(* main around the loop: the terminal's calls may fail.  The user only
   presses 'q' or keys the loop ignores. *)

\* The results of run_app that are errors, by the call that failed.
IsErr(r) == r \in {"Err(draw)", "Err(poll)", "Err(read)"}

\* run_app returns the error of a failed call at once ("?").
Failed(err) ==
    /\ pc' = "done"
    /\ res' = err
    /\ key' = "none"
    /\ UNCHANGED <<appvars, loopvars, codecvars, attempted, reported>>

\* Line 288: terminal.draw fails, before the re-arm.
DrawFails == pc = "draw" /\ Failed("Err(draw)")

\* Line 300: crossterm::event::poll fails.
PollFails == pc = "poll" /\ Failed("Err(poll)")

\* Lines 302 and 328: an event is ready and event::read fails.
ReadFails == pc = "poll" /\ Failed("Err(read)")

\* One teardown call of main: it is recorded as made; if it succeeds main
\* goes on at next, if it fails main returns its error ("?"), which is what
\* gets reported, and nothing after it runs.
Teardown(name, next) ==
    /\ attempted' = attempted \cup {name}
    /\ \E ok \in BOOLEAN :
          IF ok
          THEN pc' = next /\ UNCHANGED reported
          ELSE pc' = "exit" /\ reported' = name
    /\ UNCHANGED <<appvars, loopvars, codecvars, key, res>>

\* Line 379.
DisableRawMode == pc = "done" /\ Teardown("disable_raw_mode", "leave_screen")

\* Lines 380-384.
LeaveScreen ==
    pc = "leave_screen" /\ Teardown("LeaveAlternateScreen", "show_cursor")

\* Line 385.
ShowCursor == pc = "show_cursor" /\ Teardown("show_cursor", "report")

\* Lines 387-391: the error of run_app, if any, is printed; main returns Ok.
ReportRes ==
    /\ pc = "report"
    /\ reported' = IF IsErr(res) THEN "run_app" ELSE reported
    /\ pc' = "exit"
    /\ UNCHANGED <<appvars, loopvars, codecvars, key, res, attempted>>

NextMain ==
    \/ LoopTop
    \/ PollOther
    \/ PollCmdQuit
    \/ PollTimeout
    \/ TickNotDue
    \/ TickDue
    \/ DrawFails
    \/ PollFails
    \/ ReadFails
    \/ DisableRawMode
    \/ LeaveScreen
    \/ ShowCursor
    \/ ReportRes

SpecMain == Init /\ [][NextMain]_vars

----------------------------------------------------------------------------
(* The layout of one frame: ui is called with a frame height, a banner of
   some number of lines and the mode. *)

MaxFrameHeight == 20
MaxBannerLines == 6

\* Rust's "as u16" and "as i16" casts.
as_u16(x) == x % 65536
as_i16(x) == IF x % 65536 >= 32768 THEN (x % 65536) - 65536 ELSE x % 65536

\* ui, lines 208-244: None if nothing is drawn, else the heights handed to
\* create_chunks together with the blank height they were computed from.
ui(height, content_len, edit) ==
    LET text_height == content_len + MARGIN_LINES + INPUT_HEIGHT
    IN  IF as_u16(text_height) > height
        THEN None
        ELSE LET blank_height == height - as_u16(text_height)
                 top_height == blank_height \div 2
                 half == as_i16(blank_height \div 2)
                 bot_height == IF edit
                               THEN IF half - as_i16(INPUT_HEIGHT) < 0
                                    THEN 0
                                    ELSE half - as_i16(INPUT_HEIGHT)
                               ELSE half
                 input_height == IF edit THEN as_u16(INPUT_HEIGHT) ELSE 0
             IN  Some([blank |-> blank_height,
                       top_h |-> top_height,
                       text_h |-> as_u16(text_height),
                       bot |-> bot_height,
                       bot_h |-> as_u16(bot_height),
                       input_h |-> input_height])

InitUi ==
    /\ time_str = <<"0", "0", ":", "0", "0">>
    /\ edit_mode \in BOOLEAN
    /\ reset = FALSE
    /\ time = 0
    /\ input_str = <<>>
    /\ cursor_position = 0
    /\ LoopNew
    /\ MainNew
    /\ key = "none"
    /\ pc = "call"
    /\ \E h \in 0..MaxFrameHeight, n \in 0..MaxBannerLines :
          call = [fn |-> "ui", arg |-> [height |-> h, content_len |-> n]]
    /\ ret = None

\* Lines 215-217: the frame is too low and ui returns without drawing.
UiReturnsEarly ==
    /\ pc = "call"
    /\ ui(call.arg.height, call.arg.content_len, edit_mode) = None
    /\ ret' = None
    /\ pc' = "return"
    /\ UNCHANGED <<appvars, loopvars, key, call, mainvars>>

\* Lines 219-244: the heights are computed and handed to create_chunks.
UiDraws ==
    /\ pc = "call"
    /\ ui(call.arg.height, call.arg.content_len, edit_mode) # None
    /\ ret' = ui(call.arg.height, call.arg.content_len, edit_mode)
    /\ pc' = "return"
    /\ UNCHANGED <<appvars, loopvars, key, call, mainvars>>

NextUi == UiReturnsEarly \/ UiDraws

SpecUi == InitUi /\ [][NextUi]_vars

----------------------------------------------------------------------------
(* Claims about the edit state machine (checked under SpecEdit) *)

\* C2: Enter on a buffer that parses sets the configured duration to the
\* parsed value, clears the buffer, puts the cursor at 0, asks for a re-arm and
\* returns to Normal; "00:05" gives 5 seconds.
C2_SubmitValid ==
    [][(edit_mode /\ key' = "Enter" /\ parse_duration(input_str) # None) =>
          /\ time' = parse_duration(input_str)[1]
          /\ input_str' = <<>>
          /\ cursor_position' = 0
          /\ reset' = TRUE
          /\ edit_mode' = FALSE
          /\ input_str = Str("0", "0", ":", "0", "5") => time' = 5 * MillisPerSec]_vars

\* "00:05" has been typed and submitted from a configured duration of 0.
C2_Witness ==
    /\ key = "Enter"
    /\ ~edit_mode
    /\ time = 5 * MillisPerSec
    /\ reset
    /\ input_str = <<>>
    /\ cursor_position = 0

\* C3: Enter on a buffer that does not parse changes nothing: the mode stays
\* Editing and the buffer, cursor, configured duration, re-arm flag and
\* displayed string are as before.
C3_SubmitInvalid ==
    [][(edit_mode /\ key' = "Enter" /\ parse_duration(input_str) = None) =>
          /\ edit_mode' = TRUE
          /\ UNCHANGED <<input_str, cursor_position, time, reset, time_str>>]_vars

\* A five-character buffer that does not parse has been submitted, with a
\* duration configured earlier, and is still there.
C3_Witness ==
    /\ key = "Enter"
    /\ edit_mode
    /\ input_str = Str("0", "0", ":", "5", ":")
    /\ cursor_position = 5
    /\ time = 5 * MillisPerSec

\* C4: the cursor stays within [0, number of characters in the buffer].
C4_CursorInBounds == cursor_position \in 0..CharCount(input_str)

----------------------------------------------------------------------------
(* Claims about the loop (checked under Spec) *)

TickIsDue == pc = "tick" /\ last_tick_age >= tick_rate

\* C1: right after 's' is dispatched in Normal mode the displayed string is
\* "00:00", the configured duration is 0 and a re-arm is pending.
C1_StopClears ==
    (pc = "tick" /\ key = "s" /\ ~edit_mode) =>
        /\ time_str = Str("0", "0", ":", "0", "0")
        /\ time = 0
        /\ reset = TRUE

\* Stop has just been dispatched while a countdown of one second was active.
C1_Witness ==
    /\ pc = "tick"
    /\ key = "s"
    /\ ~edit_mode
    /\ deadline = MillisPerSec
    /\ time = 0
    /\ reset

\* C9 as stated: while the target T is non-zero and no input arrives, every
\* tick at which the elapsed time meets or exceeds T resets the start instant
\* and displays format(T).
C9_RepeatAtTarget ==
    [][(TickIsDue /\ key = "none" /\ as_secs(deadline) # 0 /\ start_age >= deadline) =>
          /\ start_age' \in Lags
          /\ time_str' = remain_to_fmt(as_secs(deadline))]_vars

\* C9 as amended: while the target T is non-zero and no input arrives, every
\* tick at which the elapsed time exceeds T resets the start instant and
\* displays format(T - e), e being the time from the reset to the read of the
\* elapsed time that follows it; a tick at which the elapsed time is at most T
\* leaves the start instant and displays format(T - elapsed), "00:00" when
\* the elapsed time equals T.
C9_RepeatPastTarget ==
    [][(TickIsDue /\ key = "none" /\ as_secs(deadline) # 0) =>
          IF start_age > deadline
          THEN /\ start_age' \in Lags
               /\ pc' = "draw" => time_str' = remain_to_fmt(as_secs(deadline - start_age'))
          ELSE /\ start_age' = start_age
               /\ time_str' = remain_to_fmt(as_secs(deadline - start_age))
               /\ start_age = deadline => time_str' = Str("0", "0", ":", "0", "0")]_vars

\* A tick has found the one-second countdown expired, reset the start
\* instant and read the elapsed time one interval later.
C9_Witness ==
    /\ pc = "draw"
    /\ key = "none"
    /\ deadline = MillisPerSec
    /\ start_age = tick_rate
    /\ last_tick_age = tick_rate
    /\ time_str = Str("0", "0", ":", "0", "0")

\* C10: when the tick fires in the iteration that dispatched a valid Enter,
\* it counts down from the duration just submitted and a fresh start instant.
C10_SubmitSeenBySameTick ==
    (TickIsDue /\ key = "Enter" /\ ~edit_mode) => (deadline = time /\ start_age = 0)

----------------------------------------------------------------------------
(* Claims about the re-arm (checked under Spec) *)

\* C11: 'r' in Normal mode leaves the configured duration unchanged and asks
\* for a re-arm; the request survives the tick check of that iteration, and
\* the top of the next iteration clears it, takes a fresh start instant and
\* sets the active target to the configured duration.
C11_ResetRearms ==
    [][/\ (pc = "poll" /\ ~edit_mode /\ key' = "r") =>
             (time' = time /\ reset' /\ pc' = "tick")
       /\ (pc = "tick" /\ ~edit_mode /\ key = "r") =>
             (time' = time /\ reset' /\ pc' = "draw")
       /\ (pc = "draw" /\ reset) =>
             (~reset' /\ start_age' = 0 /\ deadline' = time /\ time' = time
                /\ pc' = "poll")]_vars

\* 'r' was dispatched while a one second countdown had been running for some
\* time; the next iteration is about to start.
C11_Witness ==
    /\ pc = "draw"
    /\ key = "r"
    /\ ~edit_mode
    /\ reset
    /\ time = MillisPerSec
    /\ deadline = MillisPerSec
    /\ start_age > 0

----------------------------------------------------------------------------
(* Claims about the key dispatch (checked under Spec) *)

\* s2 is s with the character c put in at some index.
InsertedSomewhere(s, c, s2) ==
    \E i \in 1..(Len(s) + 1) :
        s2 = SubSeq(s, 1, i - 1) \o <<c>> \o SubSeq(s, i, Len(s))

\* C12: 'e', 'r', 's' and 'q' are commands only in Normal mode.  In Editing
\* mode each of them is put into the buffer as text and neither enters edit
\* mode anew, nor asks for a re-arm, nor stops, nor quits; in Normal mode 'e'
\* enters edit mode, 'r' asks for a re-arm, 's' stops and 'q' quits, and
\* run_app returns Ok only on a 'q' dispatched in Normal mode.
C12_CommandsOnlyInNormal ==
    [][/\ (pc = "poll" /\ edit_mode /\ key' \in CmdChars) =>
             /\ InsertedSomewhere(input_str, key', input_str')
             /\ edit_mode'
             /\ UNCHANGED <<reset, time, time_str, res>>
             /\ pc' = "tick"
       /\ (pc = "poll" /\ ~edit_mode /\ key' \in CmdChars) =>
             /\ input_str' = input_str
             /\ key' = "e" => (edit_mode' /\ pc' = "tick" /\ UNCHANGED <<reset, time>>)
             /\ key' = "r" => (reset' /\ ~edit_mode' /\ pc' = "tick")
             /\ key' = "s" => (reset' /\ time' = 0 /\ ~edit_mode' /\ pc' = "tick")
             /\ key' = "q" => pc' = "done"
       /\ (pc # "done" /\ pc' = "done" /\ res' = "Ok") =>
             (pc = "poll" /\ ~edit_mode /\ key' = "q")]_vars

\* 'q' was typed in Editing mode after "00": it is in the buffer and the loop
\* goes on.
C12_Witness ==
    /\ pc = "tick"
    /\ edit_mode
    /\ key = "q"
    /\ input_str = <<"0", "0", "q">>
    /\ res = "none"

----------------------------------------------------------------------------
(* Claims about main (checked under SpecMain) *)

\* C13: a failure of draw, poll or read ends the loop at once; after it main
\* has, by the time it exits, attempted to leave raw mode and to leave the
\* alternate screen, and has reported the error of the loop.
C13_TeardownThenReport ==
    (pc = "exit" /\ IsErr(res)) =>
        /\ {"disable_raw_mode", "LeaveAlternateScreen"} \subseteq attempted
        /\ reported = "run_app"

----------------------------------------------------------------------------
(* Claims about stop and the countdown (checked under Spec) *)

\* C14: after a stop, and until a duration is submitted again, every frame
\* drawn shows "00:00", whether or not the tick fires in the iteration of the
\* stop.  In the loop the only duration submitted is one second, so the
\* configured duration is 0 exactly from a stop to the next submission (and
\* before the first submission, when the display is "00:00" anyway); a frame
\* is drawn from each state at the top of the loop.
C14_StoppedShowsZero ==
    (pc = "draw" /\ time = 0) => time_str = <<"0", "0", ":", "0", "0">>

----------------------------------------------------------------------------
(* Claims about typing and erasing (checked under SpecEdit) *)

\* C15: typing a character c with the cursor at p, 0 <= p <= length, puts c
\* at index p, moves the characters that were at indices >= p one place to
\* the right and leaves the cursor at p + 1.
C15_InsertAtCursor ==
    [][(edit_mode /\ key' \in EditChars /\ cursor_position <= Len(input_str)) =>
          /\ input_str' = SubSeq(input_str, 1, cursor_position) \o <<key'>>
                              \o SubSeq(input_str, cursor_position + 1, Len(input_str))
          /\ cursor_position' = cursor_position + 1]_vars

\* C16: Backspace with the cursor at p > 0 removes exactly the character at
\* index p - 1 (the buffer gets one character shorter, the others keep their
\* order) and leaves the cursor at p - 1; with the cursor at 0 it changes
\* neither the buffer nor the cursor.
C16_BackspaceRemovesBefore ==
    [][(edit_mode /\ key' = "Backspace") =>
          IF cursor_position > 0
          THEN /\ Len(input_str') = Len(input_str) - 1
               /\ \A i \in 1..Len(input_str') :
                     input_str'[i] =
                        input_str[IF i < cursor_position THEN i ELSE i + 1]
               /\ cursor_position' = cursor_position - 1
          ELSE UNCHANGED <<input_str, cursor_position>>]_vars

\* C17: whenever the mode is Normal the buffer is empty and the cursor is 0;
\* so every step from Normal into Editing mode, which changes neither the
\* buffer nor the cursor, starts the edit with an empty buffer and cursor 0.
C17_NormalHasEmptyBuffer ==
    /\ [](~edit_mode => (input_str = <<>> /\ cursor_position = 0))
    /\ [][(~edit_mode /\ edit_mode') =>
             /\ UNCHANGED <<input_str, cursor_position>>
             /\ input_str' = <<>>
             /\ cursor_position' = 0]_vars

\* Edit mode has been entered again after "00:05" was typed and submitted
\* in an earlier edit.
C17_Witness ==
    /\ key = "e"
    /\ edit_mode
    /\ time = 5 * MillisPerSec
    /\ input_str = <<>>
    /\ cursor_position = 0

----------------------------------------------------------------------------
(* Claims about the active target (checked under Spec) *)

\* C18: whenever no re-arm is pending the active target equals the
\* configured duration, and the active target changes only in the re-arm at
\* the top of an iteration that finds a re-arm pending, never in the key
\* dispatch or the tick.
C18_TargetFollowsConfigured ==
    /\ [](~reset => deadline = time)
    /\ [][deadline' # deadline => (pc = "draw" /\ reset /\ deadline' = time)]_vars

\* A one second countdown has been running for some time and the tick check
\* is next.
C18_Witness ==
    /\ pc = "tick"
    /\ ~reset
    /\ time = MillisPerSec
    /\ deadline = MillisPerSec
    /\ start_age > 0

----------------------------------------------------------------------------
(* Claims about the remaining time (checked under Spec) *)

----------------------------------------------------------------------------
(* Claims about the layout (checked under SpecUi) *)

\* C20: whenever ui draws a frame, in either mode and for every frame height
\* and banner height, the heights it asks the layout for (top margin, banner
\* region, bottom margin and input box, 3 in Editing mode and 0 in Normal
\* mode) add up to at most the frame height, and no height computation goes
\* below zero.
C20_HeightsFit ==
    (pc = "return" /\ ret # None) =>
        LET l == ret[1]
        IN  /\ l.input_h = IF edit_mode THEN 3 ELSE 0
            /\ l.blank >= 0
            /\ l.bot >= 0
            /\ l.bot_h = l.bot
            /\ l.top_h + l.text_h + l.bot_h + l.input_h <= call.arg.height

====
